---- MODULE Spec2Model ----
(***************************************************************************)
(* The Dungeon Crawler game of "project 2/dungeon.py": DungeonState,       *)
(* DungeonGame (from_text, get_actions, get_successor, is_terminal) and    *)
(* the turn sequencing of DungeonState.next_turn, and the MonsterAgent     *)
(* that picks a monster's direction.                                       *)
(*                                                                         *)
(* A DungeonState is a record with the fields of the dataclass.  Points    *)
(* are records [x, y].  Real-valued quantities (score, payoffs) are kept   *)
(* in tenths so that they are integers.                                    *)
(***************************************************************************)
EXTENDS Integers, Sequences, FiniteSets

VARIABLES game,     \* the DungeonGame built by from_text (layout, initial_state)
          state,    \* the DungeonState the driver holds
          call,     \* the last get_successor call: <<state passed, action passed>>
          visited,  \* the turns produced so far when next_turn is followed alone
          agents,   \* the MonsterAgent of each monster: current_direction, steps
          acted,    \* the last MonsterAgent.act call, or <<>>
          calls     \* per agent: act calls since, and including, its last resample

policy == <<agents, acted, calls>>

vars == <<game, state, call, visited, agents, acted, calls>>

\* ------------------------------------------------------------------ bounds
\* The clock stops the exploration after this many completed rounds.
MaxTime == 4
\* Largest monster list of the turn-sequence specification.
MaxMonsters == 4

\* ------------------------------------------------- mathutils (not in src/)
Point(x, y) == [x |-> x, y |-> y]

\* Direction enumeration, in declaration order.
Direction == <<"UP", "DOWN", "LEFT", "RIGHT", "NONE">>

NONE == "NONE"

to_vector(direction) ==
    CASE direction = "UP"    -> Point(0, -1)
      [] direction = "DOWN"  -> Point(0, 1)
      [] direction = "LEFT"  -> Point(-1, 0)
      [] direction = "RIGHT" -> Point(1, 0)
      [] direction = "NONE"  -> Point(0, 0)

\* Point.__add__
PointAdd(p, v) == Point(p.x + v.x, p.y + v.y)

\* ------------------------------------------------------------ DungeonTile
TileEMPTY   == "."
TileWALL    == "#"
TileCOIN    == "$"
TileEXIT    == "E"
TilePLAYER  == "@"
TileMONSTER == "M"
TileDAGGER  == "~"
TileKEY     == "K"

\* Absence of a value (Python None): an unset point, an absent payoff list.
None == <<>>

\* ---------------------------------------------------------------- helpers
Range(s) == {s[i] : i \in DOMAIN s}

Max(S) == CHOOSE m \in S : \A n \in S : n <= m

\* ------------------------------------------------------------ level texts
\* Level texts handed to from_text, one character per element.
LevelKeyRun == <<"@", "K", "E", "\n",
                 "~", "M", ".", "\n">>

\* A monster walled in on every side.
LevelCage == <<"@", ".", "#", "M", "\n",
               "E", ".", "#", "#">>

LevelArmory == <<" ", "~", "@", "~", "\n",
                 "\n",
                 " ", "M", "#", "M", " ", "\n",
                 " ", "E", "$", ".">>

Levels == {LevelKeyRun, LevelArmory, LevelCage}

\* ------------------------------------------------- DungeonGame.from_text
Whitespace == {" ", "\t", "\r"}

IndexOfNewline(text) ==
    IF \E i \in 1..Len(text) : text[i] = "\n"
    THEN CHOOSE i \in 1..Len(text) :
            text[i] = "\n" /\ \A j \in 1..(i - 1) : text[j] # "\n"
    ELSE Len(text) + 1

\* str.splitlines
RECURSIVE splitlines(_)
splitlines(text) ==
    IF text = <<>> THEN <<>>
    ELSE LET n == IndexOfNewline(text)
         IN <<SubSeq(text, 1, n - 1)>> \o
            (IF n >= Len(text) THEN <<>>
             ELSE splitlines(SubSeq(text, n + 1, Len(text))))

\* str.strip
RECURSIVE strip(_)
strip(line) ==
    IF line = <<>> THEN line
    ELSE IF Head(line) \in Whitespace THEN strip(Tail(line))
    ELSE IF line[Len(line)] \in Whitespace
         THEN strip(SubSeq(line, 1, Len(line) - 1))
    ELSE line

\* lines = [line for line in (line.strip() ...) if line]
TextLines(text) ==
    LET stripped == [i \in DOMAIN splitlines(text) |-> strip(splitlines(text)[i])]
    IN SelectSeq(stripped, LAMBDA line : line # <<>>)

\* The (x, y, char) triples in the order the two nested loops visit them.
RECURSIVE ScanLine(_, _, _)
ScanLine(line, x, y) ==
    IF x > Len(line) THEN <<>>
    ELSE <<[position |-> Point(x - 1, y), char |-> line[x]]>>
         \o ScanLine(line, x + 1, y)

RECURSIVE ScanLines(_, _)
ScanLines(lines, y) ==
    IF y > Len(lines) THEN <<>>
    ELSE ScanLine(lines[y], 1, y - 1) \o ScanLines(lines, y + 1)

\* Last cell holding the tile, or None (each assignment overwrites).
LastOf(cells, tile) ==
    LET hits == SelectSeq(cells, LAMBDA c : c.char = tile)
    IN IF hits = <<>> THEN None ELSE hits[Len(hits)].position

TilePositions(cells, tile) ==
    {c.position : c \in {d \in Range(cells) : d.char = tile}}

from_text(text) ==
    LET lines    == TextLines(text)
        width    == Max({Len(lines[i]) : i \in DOMAIN lines})
        height   == Len(lines)
        cells    == ScanLines(lines, 1)
        walkable == {c.position : c \in {d \in Range(cells) : d.char # TileWALL}}
        mcells   == SelectSeq(cells, LAMBDA c : c.char = TileMONSTER)
        monsters == [i \in DOMAIN mcells |->
                        [position |-> mcells[i].position, alive |-> TRUE]]
        layout   == [width |-> width, height |-> height,
                     walkable |-> walkable, exit |-> LastOf(cells, TileEXIT)]
        player   == [position |-> LastOf(cells, TilePLAYER), alive |-> TRUE,
                     inventory |-> [daggers |-> 0, coins |-> 0, keys |-> 0]]
    IN [layout |-> layout,
        initial_state |->
            [time |-> 0, turn |-> 0, layout |-> layout, player |-> player,
             coins |-> TilePositions(cells, TileCOIN),
             daggers |-> TilePositions(cells, TileDAGGER),
             keys |-> TilePositions(cells, TileKEY),
             monsters |-> monsters]]

\* DungeonGame.get_initial_state
get_initial_state(g) == g.initial_state

\* DungeonGame.agent_count
agent_count(g) == 1 + Len(g.initial_state.monsters)

\* ------------------------------------------------ DungeonState.next_turn
\* Mutation: the scan starts one monster too far.
RECURSIVE ScanTurnSkipsOne(_, _)
ScanTurnSkipsOne(monsters, turn) ==
    IF turn + 1 < Len(monsters)
    THEN IF monsters[turn + 2].alive THEN turn + 2
         ELSE ScanTurnSkipsOne(monsters, turn + 1)
    ELSE 0

RECURSIVE ScanTurn(_, _)
ScanTurn(monsters, turn) ==
    IF turn < Len(monsters)
    THEN IF monsters[turn + 1].alive THEN turn + 1
         ELSE ScanTurn(monsters, turn + 1)
    ELSE 0

next_turn(s) == ScanTurn(s.monsters, s.turn)

\* ---------------------------------------------------- DungeonState.score
TenthsPerUnit == 10

\* Number of dead monsters: sum(not monster.alive for monster in monsters)
DeadCount(monsters) ==
    Cardinality({i \in DOMAIN monsters : ~monsters[i].alive})

\* Mutation: every key held counts as a coin does.
scoreCountsKeys(s) ==
    TenthsPerUnit * (s.player.inventory.coins + s.player.inventory.keys)
    + TenthsPerUnit * 10 * DeadCount(s.monsters)
    - s.time

\* coins + 10 * dead - 0.1 * time, in tenths
score(s) ==
    TenthsPerUnit * s.player.inventory.coins
    + TenthsPerUnit * 10 * DeadCount(s.monsters)
    - s.time

\* -------------------------------------------------- DungeonGame.is_terminal
\* The exit is read from the game's own layout (self.layout).
INFINITY == 100000000

\* Mutation: standing on the exit wins without a key.
is_terminalWithoutKey(s) ==
    LET win == s.player.position = game.layout.exit
    IN IF win
       THEN LET value == TenthsPerUnit * INFINITY + score(s)
            IN [terminal |-> TRUE,
                payoffs |-> <<value>> \o [i \in DOMAIN s.monsters |-> -value]]
       ELSE IF ~s.player.alive
            THEN [terminal |-> TRUE,
                  payoffs |-> <<-(TenthsPerUnit * INFINITY)>> \o
                      [i \in DOMAIN s.monsters |-> TenthsPerUnit * INFINITY]]
            ELSE [terminal |-> FALSE, payoffs |-> None]

\* Mutation: the loss payoff is scaled by the score as the win payoff is.
is_terminalLossWithScore(s) ==
    LET win == s.player.inventory.keys # 0
               /\ s.player.position = game.layout.exit
        value == TenthsPerUnit * INFINITY + score(s)
    IN IF win
       THEN [terminal |-> TRUE,
             payoffs |-> <<value>> \o [i \in DOMAIN s.monsters |-> -value]]
       ELSE IF ~s.player.alive
            THEN [terminal |-> TRUE,
                  payoffs |-> <<-value>> \o [i \in DOMAIN s.monsters |-> value]]
            ELSE [terminal |-> FALSE, payoffs |-> None]

is_terminal(s) ==
    LET win == s.player.inventory.keys # 0
               /\ s.player.position = game.layout.exit
    IN IF win
       THEN LET value == TenthsPerUnit * INFINITY + score(s)
            IN [terminal |-> TRUE,
                payoffs |-> <<value>> \o [i \in DOMAIN s.monsters |-> -value]]
       ELSE IF ~s.player.alive
            THEN [terminal |-> TRUE,
                  payoffs |-> <<-(TenthsPerUnit * INFINITY)>> \o
                      [i \in DOMAIN s.monsters |-> TenthsPerUnit * INFINITY]]
            ELSE [terminal |-> FALSE, payoffs |-> None]

\* ----------------------------------------------------- DungeonGame.get_turn
get_turn(s) == s.turn

\* -------------------------------------------------- DungeonGame.get_actions
\* Mutation: only the four movement directions are enumerated.
PlayerActionsMovementOnly(s) ==
    SelectSeq(Direction, LAMBDA direction :
        /\ direction # NONE
        /\ PointAdd(s.player.position, to_vector(direction)) \in s.layout.walkable)

\* Mutation: the wall test of the player's branch is dropped.
PlayerActionsThroughWalls(s) == Direction

PlayerActions(s) ==
    SelectSeq(Direction, LAMBDA direction :
        PointAdd(s.player.position, to_vector(direction)) \in s.layout.walkable)

\* Mutation: the cells of the other monsters are not looked at.
MonsterActionsNoBlock(s) ==
    LET index == s.turn
        monster_position == s.monsters[index].position
    IN IF ~s.monsters[index].alive THEN <<>>
       ELSE SelectSeq(Direction, LAMBDA direction :
                PointAdd(monster_position, to_vector(direction))
                    \in s.layout.walkable)

\* Mutation: dead monsters block a cell as alive ones do.
MonsterActionsDeadBlock(s) ==
    LET index == s.turn
        monster_locations ==
            {s.monsters[i].position : i \in DOMAIN s.monsters \ {index}}
        monster_position == s.monsters[index].position
    IN IF ~s.monsters[index].alive THEN <<>>
       ELSE SelectSeq(Direction, LAMBDA direction :
                LET position == PointAdd(monster_position, to_vector(direction))
                IN position \in s.layout.walkable
                   /\ position \notin monster_locations)

MonsterActions(s) ==
    LET index == s.turn   \* sequences are 1-based: monsters[turn - 1] in the code
        monster_locations ==
            {s.monsters[i].position :
                i \in {j \in DOMAIN s.monsters : j # index /\ s.monsters[j].alive}}
        monster_position == s.monsters[index].position
    IN IF ~s.monsters[index].alive THEN <<>>
       ELSE SelectSeq(Direction, LAMBDA direction :
                LET position == PointAdd(monster_position, to_vector(direction))
                IN position \in s.layout.walkable
                   /\ position \notin monster_locations)

get_actions(s) == IF s.turn = 0 THEN PlayerActions(s) ELSE MonsterActions(s)

\* ------------------------------------------------ DungeonGame.get_successor
\* Mutation: the coin is counted but left on the floor.
PickupLeavesCoin(s, action) ==
    LET new_position == PointAdd(s.player.position, to_vector(action))
        gotCoin   == new_position \in s.coins
        gotDagger == new_position \in s.daggers
        gotKey    == new_position \in s.keys
    IN [s EXCEPT !.player.position = new_position,
                 !.player.inventory.coins = IF gotCoin THEN @ + 1 ELSE @,
                 !.daggers = @ \ {new_position},
                 !.player.inventory.daggers = IF gotDagger THEN @ + 1 ELSE @,
                 !.keys = @ \ {new_position},
                 !.player.inventory.keys = IF gotKey THEN @ + 1 ELSE @]

\* The player's turn, first half: move and take what lies on the new cell.
Pickup(s, action) ==
    LET new_position == PointAdd(s.player.position, to_vector(action))
        gotCoin   == new_position \in s.coins
        gotDagger == new_position \in s.daggers
        gotKey    == new_position \in s.keys
    IN [s EXCEPT !.player.position = new_position,
                 !.coins = @ \ {new_position},
                 !.player.inventory.coins = IF gotCoin THEN @ + 1 ELSE @,
                 !.daggers = @ \ {new_position},
                 !.player.inventory.daggers = IF gotDagger THEN @ + 1 ELSE @,
                 !.keys = @ \ {new_position},
                 !.player.inventory.keys = IF gotKey THEN @ + 1 ELSE @]

\* Mutation: the player needs one dagger more than there are monsters.
FightNeedsSpareDagger(s) ==
    LET monsters_at_player ==
            {i \in DOMAIN s.monsters :
                s.monsters[i].position = s.player.position /\ s.monsters[i].alive}
        count == Cardinality(monsters_at_player)
    IN IF count = 0 THEN s
       ELSE IF s.player.inventory.daggers <= count
            THEN [s EXCEPT !.player.inventory.daggers = 0,
                           !.player.alive = FALSE]
            ELSE [s EXCEPT !.player.inventory.daggers = @ - count,
                           !.monsters = [i \in DOMAIN @ |->
                               IF i \in monsters_at_player
                               THEN [@[i] EXCEPT !.alive = FALSE]
                               ELSE @[i]]]

\* Mutation: a lost fight empties the daggers but leaves the player alive.
FightPlayerSurvives(s) ==
    LET monsters_at_player ==
            {i \in DOMAIN s.monsters :
                s.monsters[i].position = s.player.position /\ s.monsters[i].alive}
        count == Cardinality(monsters_at_player)
    IN IF count = 0 THEN s
       ELSE IF s.player.inventory.daggers < count
            THEN [s EXCEPT !.player.inventory.daggers = 0]
            ELSE [s EXCEPT !.player.inventory.daggers = @ - count,
                           !.monsters = [i \in DOMAIN @ |->
                               IF i \in monsters_at_player
                               THEN [@[i] EXCEPT !.alive = FALSE]
                               ELSE @[i]]]

\* The player's turn, second half: fight the monsters at the player's cell.
Fight(s) ==
    LET monsters_at_player ==
            {i \in DOMAIN s.monsters :
                s.monsters[i].position = s.player.position /\ s.monsters[i].alive}
        count == Cardinality(monsters_at_player)
    IN IF count = 0 THEN s
       ELSE IF s.player.inventory.daggers < count
            THEN [s EXCEPT !.player.inventory.daggers = 0,
                           !.player.alive = FALSE]
            ELSE [s EXCEPT !.player.inventory.daggers = @ - count,
                           !.monsters = [i \in DOMAIN @ |->
                               IF i \in monsters_at_player
                               THEN [@[i] EXCEPT !.alive = FALSE]
                               ELSE @[i]]]

\* The branch taken on the player's turn (current_turn == 0).
PlayerMove(s, action) == Fight(Pickup(s, action))

\* Mutation: the monster dies on the player's cell and a dagger is spent,
\* whether the player holds one or not.
MonsterMoveAlwaysStabbed(s, action) ==
    LET index == s.turn
        new_position == PointAdd(s.monsters[index].position, to_vector(action))
        moved == [s EXCEPT !.monsters[index].position = new_position]
    IN IF new_position = s.player.position
       THEN [moved EXCEPT !.monsters[index].alive = FALSE,
                          !.player.inventory.daggers = @ - 1]
       ELSE moved

\* Mutation: the monster takes a coin it steps on off the floor.
MonsterMoveTakesCoin(s, action) ==
    LET index == s.turn
        new_position == PointAdd(s.monsters[index].position, to_vector(action))
        moved == [s EXCEPT !.monsters[index].position = new_position,
                           !.coins = @ \ {new_position}]
    IN IF new_position = s.player.position
       THEN IF s.player.inventory.daggers # 0
            THEN [moved EXCEPT !.monsters[index].alive = FALSE,
                               !.player.inventory.daggers = @ - 1]
            ELSE [moved EXCEPT !.player.alive = FALSE]
       ELSE moved

\* Mutation: the dagger is spent but the monster is not marked dead.
MonsterMoveSurvivesDagger(s, action) ==
    LET index == s.turn
        new_position == PointAdd(s.monsters[index].position, to_vector(action))
        moved == [s EXCEPT !.monsters[index].position = new_position]
    IN IF new_position = s.player.position
       THEN IF s.player.inventory.daggers # 0
            THEN [moved EXCEPT !.player.inventory.daggers = @ - 1]
            ELSE [moved EXCEPT !.player.alive = FALSE]
       ELSE moved

\* Mutation: the monster dies on an armed player without costing a dagger.
MonsterMoveFreeKill(s, action) ==
    LET index == s.turn
        new_position == PointAdd(s.monsters[index].position, to_vector(action))
        moved == [s EXCEPT !.monsters[index].position = new_position]
    IN IF new_position = s.player.position
       THEN IF s.player.inventory.daggers # 0
            THEN [moved EXCEPT !.monsters[index].alive = FALSE]
            ELSE [moved EXCEPT !.player.alive = FALSE]
       ELSE moved

\* Mutation: the monster eats the player whatever the player holds.
MonsterMoveAlwaysEats(s, action) ==
    LET index == s.turn
        new_position == PointAdd(s.monsters[index].position, to_vector(action))
        moved == [s EXCEPT !.monsters[index].position = new_position]
    IN IF new_position = s.player.position
       THEN [moved EXCEPT !.player.alive = FALSE]
       ELSE moved

\* The branch taken on a monster's turn.
MonsterMove(s, action) ==
    LET index == s.turn
        new_position == PointAdd(s.monsters[index].position, to_vector(action))
        moved == [s EXCEPT !.monsters[index].position = new_position]
    IN IF new_position = s.player.position
       THEN IF s.player.inventory.daggers # 0
            THEN [moved EXCEPT !.monsters[index].alive = FALSE,
                               !.player.inventory.daggers = @ - 1]
            ELSE [moved EXCEPT !.player.alive = FALSE]
       ELSE moved

\* Mutation: the turn goes to the next index whether that monster lives or not.
AdvanceTurnOntoDead(s) ==
    LET turn == IF s.turn < Len(s.monsters) THEN s.turn + 1 ELSE 0
    IN [s EXCEPT !.turn = turn,
                 !.time = IF turn = 0 THEN @ + 1 ELSE @]

\* Mutation: the clock advances on every call.
AdvanceTurnTickAlways(s) ==
    [s EXCEPT !.turn = next_turn(s), !.time = @ + 1]

\* Advance the turn, and the clock when the turn comes back to the player.
AdvanceTurn(s) ==
    LET turn == next_turn(s)
    IN [s EXCEPT !.turn = turn,
                 !.time = IF turn = 0 THEN @ + 1 ELSE @]

get_successor(s, action) ==
    AdvanceTurn(IF s.turn = 0 THEN PlayerMove(s, action)
                ELSE MonsterMove(s, action))

\* ------------------------------------------------------------ MonsterAgent
\* MonsterAgent.__init__ (the random generator is not part of the state).
MonsterAgentInit == [current_direction |-> NONE, steps |-> 0]

\* rng.int(0, len(movement_actions) - 1): any index of the list.
IntDraws(low, high) == low..high

\* Whether rng.float() > 2 ** (-steps / min(width, height)) can come out
\* true: the draw is in [0, 1) and the bound is 1 when steps is 0, below 1
\* when steps is positive.
FloatExceeds(steps) == IF steps = 0 THEN {FALSE} ELSE BOOLEAN

\* Mutation: the step counter is not reset.
select_new_actionKeepsSteps(agent, actions, pick) ==
    LET movement_actions == SelectSeq(actions, LAMBDA action : action # NONE)
    IN [steps |-> agent.steps,
        current_direction |->
            IF movement_actions # <<>> THEN movement_actions[pick + 1]
            ELSE NONE]

\* MonsterAgent.__select_new_action; pick is the value drawn by rng.int.
select_new_action(agent, actions, pick) ==
    LET movement_actions == SelectSeq(actions, LAMBDA action : action # NONE)
    IN [steps |-> 0,
        current_direction |->
            IF movement_actions # <<>> THEN movement_actions[pick + 1]
            ELSE NONE]

\* Mutation: a committed direction is kept without asking whether it is
\* still among the actions.
actKeepsIllegal(agent, s, exceeds, pick) ==
    LET actions == get_actions(s)
        resample == \/ agent.current_direction = NONE
                    \/ exceeds
        chosen == IF resample THEN select_new_action(agent, actions, pick)
                  ELSE agent
    IN [agent |-> [chosen EXCEPT !.steps = @ + 1],
        direction |-> chosen.current_direction,
        resampled |-> resample]

\* MonsterAgent.act; exceeds is the outcome of the comparison with the
\* float drawn.  The result holds the agent after the call, the direction
\* returned and whether __select_new_action was called.
act(agent, s, exceeds, pick) ==
    LET actions == get_actions(s)
        resample == \/ agent.current_direction = NONE
                    \/ agent.current_direction \notin Range(actions)
                    \/ exceeds
        chosen == IF resample THEN select_new_action(agent, actions, pick)
                  ELSE agent
    IN [agent |-> [chosen EXCEPT !.steps = @ + 1],
        direction |-> chosen.current_direction,
        resampled |-> resample]

\* ------------------------------------------------------------- the game
\* A driver loads a level and then applies get_successor to actions taken
\* from get_actions, for the player and for the monsters in turn.
Init ==
    /\ \E text \in Levels : game = from_text(text)
    /\ state = get_initial_state(game)
    /\ call = <<>>
    /\ visited = <<>>
    /\ agents = [i \in DOMAIN state.monsters |-> MonsterAgentInit]
    /\ acted = <<>>
    /\ calls = [i \in DOMAIN state.monsters |-> 0]

PlayerStep ==
    /\ get_turn(state) = 0
    /\ state.time < MaxTime
    /\ \E action \in Range(get_actions(state)) :
          /\ state' = get_successor(state, action)
          /\ call' = <<state, action>>
    /\ UNCHANGED <<game, visited, policy>>

MonsterStep ==
    /\ get_turn(state) # 0
    /\ state.time < MaxTime
    /\ \E action \in Range(get_actions(state)) :
          /\ state' = get_successor(state, action)
          /\ call' = <<state, action>>
    /\ UNCHANGED <<game, visited, policy>>

Next == PlayerStep \/ MonsterStep

Spec == Init /\ [][Next]_vars

\* --------------------------------------------- play that ends when it ends
\* The driver asks is_terminal before it asks for an action, and a game
\* that has ended gets no further get_successor call.
PlayerTurn == ~is_terminal(state).terminal /\ PlayerStep

MonsterTurn == ~is_terminal(state).terminal /\ MonsterStep

NextPlay == PlayerTurn \/ MonsterTurn

PlaySpec == Init /\ [][NextPlay]_vars

\* --------------------------------------- play with the monsters' agents
\* The player takes any legal action; a monster's action is the one its
\* MonsterAgent returns, applied by get_successor in the same step.
MovementCount(s) ==
    Len(SelectSeq(get_actions(s), LAMBDA action : action # NONE))

AgentTurn ==
    /\ ~is_terminal(state).terminal
    /\ get_turn(state) # 0
    /\ state.time < MaxTime
    /\ LET index == get_turn(state)
           agent == agents[index]
           last  == IF MovementCount(state) = 0 THEN 0
                    ELSE MovementCount(state) - 1
       IN \E exceeds \in FloatExceeds(agent.steps), pick \in IntDraws(0, last) :
             LET result == act(agent, state, exceeds, pick)
             IN /\ agents' = [agents EXCEPT ![index] = result.agent]
                /\ acted' = [index |-> index, agent |-> agent,
                             actions |-> get_actions(state),
                             resampled |-> result.resampled,
                             direction |-> result.direction]
                /\ calls' = [calls EXCEPT ![index] =
                                IF result.resampled THEN 1 ELSE @ + 1]
                /\ state' = get_successor(state, result.direction)
                /\ call' = <<state, result.direction>>
    /\ UNCHANGED <<game, visited>>

NextAgents == PlayerTurn \/ AgentTurn

AgentSpec == Init /\ [][NextAgents]_vars

\* ------------------------------------------------- the turn sequence alone
\* A level with n monsters in a row; any of them may be dead by the time
\* the sequence of turns is followed.
TurnText(n) == <<"@">> \o [i \in 1..n |-> "M"] \o <<"E">>

InitTurn ==
    /\ \E n \in 0..MaxMonsters : game = from_text(TurnText(n))
    /\ \E cfg \in [DOMAIN game.initial_state.monsters -> BOOLEAN] :
          state = [game.initial_state EXCEPT
                      !.monsters = [i \in DOMAIN @ |-> [@[i] EXCEPT !.alive = cfg[i]]]]
    /\ call = <<>>
    /\ visited = <<>>
    /\ agents = [i \in DOMAIN state.monsters |-> MonsterAgentInit]
    /\ acted = <<>>
    /\ calls = [i \in DOMAIN state.monsters |-> 0]

\* The turn is back at the player.
TurnDone == IF visited = <<>> THEN FALSE ELSE visited[Len(visited)] = 0

\* state.turn = state.next_turn(), until the turn is back at the player.
TurnStep ==
    /\ ~TurnDone
    /\ state' = [state EXCEPT !.turn = next_turn(state)]
    /\ visited' = Append(visited, state'.turn)
    /\ UNCHANGED <<game, call, policy>>

NextTurn == TurnStep

TurnSpec == InitTurn /\ [][NextTurn]_vars

\* ====================================================================
\* Properties
\* ====================================================================
Made   == call # <<>>
Before == call[1]
Action == call[2]

AliveAt(s, position) ==
    {i \in DOMAIN s.monsters : s.monsters[i].alive /\ s.monsters[i].position = position}

AllDead(s) == \A i \in DOMAIN s.monsters : ~s.monsters[i].alive

\* C1: in every state reached from a parsed level by legal get_successor
\* calls, the player and every alive monster stand on walkable cells.
C1_PositionsWalkable ==
    /\ state.player.position \in state.layout.walkable
    /\ \A i \in DOMAIN state.monsters :
          state.monsters[i].alive =>
              state.monsters[i].position \in state.layout.walkable

\* The player and an alive monster have both left their starting cells.
C1_Witness ==
    /\ Made
    /\ state.player.position # game.initial_state.player.position
    /\ \E i \in DOMAIN state.monsters :
          /\ state.monsters[i].alive
          /\ state.monsters[i].position # game.initial_state.monsters[i].position

\* C2: the turn is within 0..len(monsters), and a turn > 0 always names an
\* alive monster, also right after a monster died.
C2_TurnOnAliveMonster ==
    /\ state.turn \in 0..Len(state.monsters)
    /\ state.turn > 0 => state.monsters[state.turn].alive

\* A monster died in the last call and the turn went to another monster.
C2_Witness ==
    /\ Made
    /\ state.turn > 0
    /\ \E i \in DOMAIN state.monsters :
          Before.monsters[i].alive /\ ~state.monsters[i].alive

\* C3: following next_turn from turn 0 yields i+1 for each alive monster
\* index i, once each and in increasing order, then 0; never a dead one.
ExpectedTurns(monsters) ==
    SelectSeq([i \in DOMAIN monsters |-> i], LAMBDA i : monsters[i].alive) \o <<0>>

C3_TurnSequence ==
    LET expected == ExpectedTurns(state.monsters)
    IN /\ Len(visited) <= Len(expected)
       /\ visited = SubSeq(expected, 1, Len(visited))
       /\ TurnDone => visited = expected
       /\ ~TurnDone => next_turn(state) = expected[Len(visited) + 1]

\* The sequence is complete for a list with a dead monster before an alive
\* one and at least two alive monsters.
C3_Witness ==
    /\ TurnDone
    /\ Len(visited) >= 3
    /\ \E i, j \in DOMAIN state.monsters :
          i < j /\ ~state.monsters[i].alive /\ state.monsters[j].alive

\* C4: a get_successor call adds 1 to the time when the resulting turn is 0
\* and leaves the time alone otherwise.
C4_TimeAdvance ==
    Made => state.time = Before.time + (IF state.turn = 0 THEN 1 ELSE 0)

\* The clock ticks on a player move made when every monster is dead.
C4_Witness ==
    /\ Made
    /\ Len(Before.monsters) > 0
    /\ AllDead(Before)
    /\ state.time = Before.time + 1
    /\ state.time >= 2

\* What the player holds when the fight is resolved on the cell moved to.
DaggersAtFight(s, position) ==
    s.player.inventory.daggers + (IF position \in s.daggers THEN 1 ELSE 0)

SameMonsterFlags(s, t) ==
    \A i \in DOMAIN s.monsters : t.monsters[i].alive = s.monsters[i].alive

Large == TenthsPerUnit * INFINITY

Win(s) == s.player.inventory.keys # 0 /\ s.player.position = s.layout.exit

LossPayoffs(s) == <<-Large>> \o [i \in DOMAIN s.monsters |-> Large]

C6_MonsterEncounter ==
    (Made /\ Before.turn > 0) =>
        LET k == Before.turn
            new_position == PointAdd(Before.monsters[k].position, to_vector(Action))
            d == Before.player.inventory.daggers
        IN /\ state.monsters[k].position = new_position
           /\ (new_position = Before.player.position /\ d >= 1) =>
                 /\ \A i \in DOMAIN state.monsters :
                       state.monsters[i].alive =
                           (Before.monsters[i].alive /\ i # k)
                 /\ state.player.inventory.daggers = d - 1
                 /\ state.player.alive = Before.player.alive
           /\ (new_position = Before.player.position /\ d = 0) =>
                 /\ ~state.player.alive
                 /\ state.monsters[k].alive
                 /\ SameMonsterFlags(Before, state)
                 /\ state.player.inventory.daggers = 0
           /\ new_position # Before.player.position =>
                 /\ SameMonsterFlags(Before, state)
                 /\ state.player.alive = Before.player.alive
                 /\ state.player.inventory.daggers = d

\* A monster stepped onto an alive, armed player and died of it.
C6_Witness ==
    /\ Made
    /\ Before.turn > 0
    /\ Before.player.alive
    /\ Before.player.inventory.daggers >= 1
    /\ Before.monsters[Before.turn].position # Before.player.position
    /\ state.monsters[Before.turn].position = Before.player.position
    /\ ~state.monsters[Before.turn].alive

\* C7: is_terminal is true exactly when the player holds a key on the exit
\* or is dead, and otherwise returns false with no payoffs.
C7_TerminalCondition ==
    LET result == is_terminal(state)
    IN /\ result.terminal =
             ((state.player.inventory.keys # 0
                  /\ state.player.position = state.layout.exit)
              \/ ~state.player.alive)
       /\ ~result.terminal => result.payoffs = None
       /\ result.terminal => result.payoffs # None

\* An alive player stands on the exit without a key: not terminal.
C7_Witness ==
    /\ Made
    /\ state.player.alive
    /\ state.player.position = state.layout.exit
    /\ state.player.inventory.keys = 0
    /\ ~is_terminal(state).terminal

\* C8: terminal payoffs have agent_count = 1 + len(monsters) entries, player
\* first; on a win LARGE + score for the player and the negation of it for
\* every monster; on a loss -LARGE for the player and +LARGE for every
\* monster (all in tenths).
C8_Payoffs ==
    LET result == is_terminal(state)
        payoffs == result.payoffs
        tenths == 10 * state.player.inventory.coins
                  + 100 * Cardinality({i \in DOMAIN state.monsters :
                                          ~state.monsters[i].alive})
                  - state.time
    IN result.terminal =>
          /\ Len(payoffs) = agent_count(game)
          /\ Len(payoffs) = 1 + Len(state.monsters)
          /\ Win(state) =>
                /\ payoffs[1] = Large + tenths
                /\ \A i \in 2..Len(payoffs) : payoffs[i] = -payoffs[1]
          /\ ~Win(state) =>
                /\ payoffs[1] = -Large
                /\ \A i \in 2..Len(payoffs) : payoffs[i] = Large

\* A dead player without the win condition, monsters present, score not 0.
C8_Witness ==
    /\ Made
    /\ ~state.player.alive
    /\ ~Win(state)
    /\ Len(state.monsters) >= 2
    /\ score(state) # 0
    /\ is_terminal(state).terminal

\* The case of C9: a player's move onto exactly one alive monster with no
\* dagger in hand when the fight is resolved.
UnarmedIntoOneMonster ==
    /\ Made
    /\ Before.turn = 0
    /\ Cardinality(AliveAt(Before, state.player.position)) = 1
    /\ DaggersAtFight(Before, state.player.position) = 0

\* C9 as stated: after such a move the player is dead and is_terminal
\* returns true with -LARGE for the player and +LARGE for every monster.
C9_Original ==
    UnarmedIntoOneMonster =>
        /\ ~state.player.alive
        /\ is_terminal(state) =
              [terminal |-> TRUE, payoffs |-> LossPayoffs(state)]

\* C9 amended: after such a move the player is dead and is_terminal returns
\* true; the payoffs are -LARGE / +LARGE unless the player holds a key on
\* the exit, where the win payoffs LARGE + score and its negation are given.
C9_UnarmedPlayerDies ==
    UnarmedIntoOneMonster =>
        /\ ~state.player.alive
        /\ is_terminal(state).terminal
        /\ ~Win(state) => is_terminal(state).payoffs = LossPayoffs(state)
        /\ Win(state) =>
              is_terminal(state).payoffs =
                  <<Large + score(state)>> \o
                  [i \in DOMAIN state.monsters |-> -(Large + score(state))]

\* An alive unarmed player walked onto a monster away from the exit.
C9_Witness ==
    /\ UnarmedIntoOneMonster
    /\ Before.player.alive
    /\ ~Win(state)
    /\ ~state.player.alive

\* C10 as stated: NONE is never among get_actions(state).
C10_Original ==
    NONE \notin Range(get_actions(state))

\* C10 amended: get_actions returns members of Direction only, and NONE
\* (stay idle) is one of them on the player's turn, and on an alive
\* monster's turn exactly when no other alive monster is on its cell.
C10_IdleIsLegal ==
    LET actions == Range(get_actions(state))
    IN /\ actions \subseteq Range(Direction)
       /\ state.turn = 0 => NONE \in actions
       /\ (state.turn > 0 /\ state.monsters[state.turn].alive) =>
             (NONE \in actions <=>
                 AliveAt(state, state.monsters[state.turn].position)
                     \subseteq {state.turn})

\* The player took NONE from get_actions and stayed where it was.
C10_Witness ==
    /\ Made
    /\ Before.turn = 0
    /\ Action = NONE
    /\ NONE \in Range(get_actions(Before))
    /\ state.player.position = Before.player.position

\* The four movement directions.
Movement == {"UP", "DOWN", "LEFT", "RIGHT"}

\* C11: a movement direction is offered to the player iff its destination
\* is walkable, and to alive monster i iff its destination is walkable and
\* no other alive monster stands there; a dead monster is offered nothing.
\* get_actions reads the turn from the state it is given, so every turn
\* value is tried on every reachable state, a dead monster's turn included.
C11_LegalMoves ==
    \A t \in 0..Len(state.monsters) :
        LET s == [state EXCEPT !.turn = t]
            actions == Range(get_actions(s))
        IN IF t = 0
           THEN \A d \in Movement :
                   d \in actions <=>
                       PointAdd(s.player.position, to_vector(d))
                           \in s.layout.walkable
           ELSE IF s.monsters[t].alive
           THEN \A d \in Movement :
                   LET destination == PointAdd(s.monsters[t].position, to_vector(d))
                   IN d \in actions <=>
                         /\ destination \in s.layout.walkable
                         /\ \A j \in DOMAIN s.monsters :
                               (j # t /\ s.monsters[j].alive) =>
                                   s.monsters[j].position # destination
           ELSE actions = {}

\* It is an alive monster's turn next to a dead monster and next to the
\* player: the moves onto both cells are offered.
C11_Witness ==
    /\ state.turn > 0
    /\ \E d \in Movement, j \in DOMAIN state.monsters :
          /\ ~state.monsters[j].alive
          /\ PointAdd(state.monsters[state.turn].position, to_vector(d))
                = state.monsters[j].position
          /\ d \in Range(get_actions(state))
    /\ \E d \in Movement :
          /\ PointAdd(state.monsters[state.turn].position, to_vector(d))
                = state.player.position
          /\ d \in Range(get_actions(state))

NewlyDead(s, t) ==
    {i \in DOMAIN s.monsters : s.monsters[i].alive /\ ~t.monsters[i].alive}

\* C12: across a get_successor call the score (in tenths) changes by 10 per
\* coin taken from the floor, 100 per monster that newly dies and -1 per
\* unit of time, and by nothing else.
C12_ScoreDelta ==
    Made =>
        /\ score(state) - score(Before) =
                10 * Cardinality(Before.coins \ state.coins)
              + 100 * Cardinality(NewlyDead(Before, state))
              - (state.time - Before.time)
        /\ score(state) =
                10 * state.player.inventory.coins
              + 100 * Cardinality({i \in DOMAIN state.monsters :
                                      ~state.monsters[i].alive})
              - state.time

\* The player took a coin in a call that killed nothing and did not
\* advance the clock: the score is one point (ten tenths) higher.
C12_Witness ==
    /\ Made
    /\ Before.turn = 0
    /\ state.player.position \in Before.coins
    /\ NewlyDead(Before, state) = {}
    /\ state.time = Before.time
    /\ score(state) = score(Before) + 10

\* C13: the inventory counters are never negative.
C13_InventoryNonNegative ==
    /\ state.player.inventory.daggers >= 0
    /\ state.player.inventory.coins >= 0
    /\ state.player.inventory.keys >= 0

\* A monster walked into a player holding no dagger: the count stays 0.
C13_Witness ==
    /\ Made
    /\ Before.turn > 0
    /\ Before.player.inventory.daggers = 0
    /\ state.monsters[Before.turn].position = Before.player.position
    /\ state.player.inventory.daggers = 0

\* C14: the floor sets coins, daggers and keys are pairwise disjoint and
\* none holds the player's cell; a call never adds to them, a player move
\* removes at most what lies on the player's new cell and a monster move
\* removes nothing.
C14_FloorItems ==
    /\ state.coins \cap state.daggers = {}
    /\ state.coins \cap state.keys = {}
    /\ state.daggers \cap state.keys = {}
    /\ state.player.position \notin (state.coins \cup state.daggers \cup state.keys)
    /\ Made =>
          /\ state.coins \subseteq Before.coins
          /\ state.daggers \subseteq Before.daggers
          /\ state.keys \subseteq Before.keys
          /\ Before.turn = 0 =>
                (Before.coins \ state.coins) \cup (Before.daggers \ state.daggers)
                    \cup (Before.keys \ state.keys)
                  \subseteq {state.player.position}
          /\ Before.turn > 0 =>
                /\ state.coins = Before.coins
                /\ state.daggers = Before.daggers
                /\ state.keys = Before.keys

\* The player stepped onto a coin and took it off the floor.
C14_Witness ==
    /\ Made
    /\ Before.turn = 0
    /\ state.player.position \in Before.coins
    /\ state.player.position \notin state.coins

\* C17: a call on monster k's turn leaves the player's position, the coins
\* and keys held, the floor sets, the layout and every other monster as
\* they were; a call on the player's turn leaves every monster's position.
C17_Frame ==
    Made =>
        /\ Before.turn > 0 =>
              /\ state.player.position = Before.player.position
              /\ state.player.inventory.coins = Before.player.inventory.coins
              /\ state.player.inventory.keys = Before.player.inventory.keys
              /\ state.coins = Before.coins
              /\ state.daggers = Before.daggers
              /\ state.keys = Before.keys
              /\ state.layout = Before.layout
              /\ \A i \in DOMAIN Before.monsters :
                    i # Before.turn => state.monsters[i] = Before.monsters[i]
        /\ Before.turn = 0 =>
              /\ Len(state.monsters) = Len(Before.monsters)
              /\ \A i \in DOMAIN Before.monsters :
                    state.monsters[i].position = Before.monsters[i].position

\* A monster stepped onto a cell with an item on it, in a level with
\* another monster, and the item is still there.
C17_Witness ==
    /\ Made
    /\ Before.turn > 0
    /\ Len(Before.monsters) >= 2
    /\ state.monsters[Before.turn].position # Before.monsters[Before.turn].position
    /\ state.monsters[Before.turn].position
          \in (state.coins \cup state.daggers \cup state.keys)

\* C18: no two alive monsters share a cell, so a player's move meets at
\* most one alive monster.
C18_MonstersApart ==
    /\ \A i, j \in DOMAIN state.monsters :
          (i # j /\ state.monsters[i].alive /\ state.monsters[j].alive) =>
              state.monsters[i].position # state.monsters[j].position
    /\ (Made /\ Before.turn = 0) =>
          Cardinality(AliveAt(Before, state.player.position)) <= 1

\* It is an alive monster's turn and a walkable cell next to it holds
\* another alive monster: that move is not offered.
C18_Witness ==
    /\ state.turn > 0
    /\ \E d \in Movement, j \in DOMAIN state.monsters :
          /\ j # state.turn
          /\ state.monsters[j].alive
          /\ PointAdd(state.monsters[state.turn].position, to_vector(d))
                = state.monsters[j].position
          /\ d \notin Range(get_actions(state))

\* C19: an alive player never shares a cell with an alive monster; a dead
\* player and a dead monster stay dead, and a dead monster stays put.
C19_MeetingsResolved ==
    /\ state.player.alive => AliveAt(state, state.player.position) = {}
    /\ Made =>
          /\ ~Before.player.alive => ~state.player.alive
          /\ \A i \in DOMAIN Before.monsters :
                ~Before.monsters[i].alive =>
                    /\ ~state.monsters[i].alive
                    /\ state.monsters[i].position = Before.monsters[i].position

\* An alive player and an alive monster met in the last call and exactly
\* one of them died of it, while another monster was already dead.
C19_Witness ==
    /\ Made
    /\ Before.player.alive
    /\ \E i, j \in DOMAIN Before.monsters :
          /\ Before.monsters[i].alive
          /\ state.monsters[i].position = state.player.position
          /\ state.monsters[i].alive # state.player.alive
          /\ ~Before.monsters[j].alive

\* C20: coins held plus coins on the floor, and keys held plus keys on the
\* floor, stay what the level started with; daggers held plus daggers on
\* the floor plus dead monsters stay the daggers the level started with.
C20_Conservation ==
    LET initial == game.initial_state
    IN /\ state.player.inventory.coins + Cardinality(state.coins)
             = Cardinality(initial.coins)
       /\ state.player.inventory.keys + Cardinality(state.keys)
             = Cardinality(initial.keys)
       /\ state.player.inventory.daggers + Cardinality(state.daggers)
             + Cardinality({i \in DOMAIN state.monsters : ~state.monsters[i].alive})
             = Cardinality(initial.daggers)
       /\ Cardinality({i \in DOMAIN state.monsters : ~state.monsters[i].alive})
             <= Cardinality(initial.daggers)

\* The player died in the last call, after a dagger had been taken and
\* spent on a monster.
C20_Witness ==
    /\ Made
    /\ Before.player.alive
    /\ ~state.player.alive
    /\ \E i \in DOMAIN state.monsters : ~state.monsters[i].alive
    /\ state.daggers # game.initial_state.daggers

Acted == acted # <<>>

\* C15: in every act call, a committed direction that is NONE or not among
\* the legal actions forces a resample; the direction returned is a legal
\* movement direction whenever one exists and NONE only when none exists;
\* a committed direction that is no longer legal is never returned.
C15_PolicyReturnsLegal ==
    Acted =>
        LET legal == Range(acted.actions)
            committed == acted.agent.current_direction
        IN /\ (committed = NONE \/ committed \notin legal) => acted.resampled
           /\ acted.direction \in Movement \cup {NONE}
           /\ legal \cap Movement # {} => acted.direction \in legal \cap Movement
           /\ acted.direction = NONE => legal \cap Movement = {}
           /\ committed \notin legal => acted.direction # committed
           /\ agents[acted.index].current_direction = acted.direction

\* The agent was committed to a movement direction that is not legal any
\* more, while other movement directions are.
C15_Witness ==
    /\ Acted
    /\ acted.agent.current_direction \in Movement
    /\ acted.agent.current_direction \notin Range(acted.actions)
    /\ Range(acted.actions) \cap Movement # {}
    /\ acted.resampled
    /\ acted.direction \in Range(acted.actions)

\* C16: act returns with steps = 1 after a resample and steps = previous
\* steps + 1 otherwise, so steps counts the calls since, and including, the
\* agent's last resample.
C16_StepCounter ==
    /\ \A i \in DOMAIN agents : agents[i].steps = calls[i]
    /\ Acted =>
          /\ agents[acted.index].steps >= 1
          /\ agents[acted.index].steps =
                IF acted.resampled THEN 1 ELSE acted.agent.steps + 1

\* An agent resampled after having gone at least two steps one way.
C16_Witness ==
    /\ Acted
    /\ acted.agent.steps >= 2
    /\ acted.resampled
    /\ agents[acted.index].steps = 1

====
